---- MODULE Spec2Model ----
(***************************************************************************)
(* A model of flux_dev_script.py: the upward path search find_path, the    *)
(* result extraction get_value_at_index, the two start-up steps that run   *)
(* at import time, and the fixed chain of node calls made by main().       *)
(*                                                                         *)
(* A path is the sequence of its components below the filesystem root, as  *)
(* os.getcwd() returns it (absolute, normalised): "/" is << >> and         *)
(* "/a/b" is <<"a", "b">>.  The script only ever starts a search at        *)
(* os.getcwd() (find_path is called without a path at lines 62 and 80).    *)
(***************************************************************************)
EXTENDS Integers, Sequences, FiniteSets, TLC

VARIABLES
    \* the filesystem and the process
    dirs,        \* the set of directories (paths), closed under parents
    files,       \* the set of regular files, as <<directory, name>>
    cwd,         \* the current working directory
    sys_path,    \* sys.path entries appended by the script
    stdout,      \* the lines printed so far
    \* one activation of find_path (the recursion keeps one live frame)
    fp_name,     \* the argument name
    fp_arg,      \* the argument path (NoPath when omitted)
    fp_path,     \* the local variable path of the current frame
    fp_pc,       \* "idle", "enter", "check", "parent", "done", "raised"
    fp_ret,      \* the value returned
    listed,      \* the directories handed to os.listdir, in order
    ascents,     \* the number of recursive calls made on a parent
    dirnames,    \* the number of os.path.dirname calls made
    \* the script
    pc,          \* the position of the module-level code / main
    exc,         \* the uncaught exception that ended the run ("none" if none)
    importable,  \* the modules the environment can import
    config,      \* the arguments load_extra_path_config was called with
    ip,          \* main: index of the next statement of Program
    iter,        \* main: iterations of the for loop started so far
    vals,        \* main: the local variables holding node results
    calls,       \* main: the external calls made, in order
    \* one call of get_value_at_index
    gv_obj, gv_index, gv_out

fsVars == <<dirs, files, cwd>>
fpVars == <<fp_name, fp_arg, fp_path, fp_pc, fp_ret, listed, ascents, dirnames>>
runVars == <<pc, exc, importable, config>>
mainVars == <<ip, iter, vals, calls>>
gvVars == <<gv_obj, gv_index, gv_out>>
vars == <<dirs, files, cwd, sys_path, stdout,
          fp_name, fp_arg, fp_path, fp_pc, fp_ret, listed, ascents, dirnames,
          pc, exc, importable, config, ip, iter, vals, calls,
          gv_obj, gv_index, gv_out>>

(***************************************************************************)
(* Bounds of the model.                                                    *)
(***************************************************************************)
MaxDirs == 3     \* directories below the root
MaxFiles == 1    \* regular files in the tree
MaxLen == 2      \* length of a sequence handed to get_value_at_index

(***************************************************************************)
(* The filesystem.                                                         *)
(***************************************************************************)
DirNames == {"ComfyUI", "a"}
FileNames == {"extra_model_paths.yaml", "ComfyUI"}
TargetNames == DirNames \cup FileNames

Root == << >>

\* Python's None for a path-valued result, and a present path.
NoPath == [some |-> FALSE, path |-> << >>]
SomePath(p) == [some |-> TRUE, path |-> p]

\* The directory sets with at most n directories below the root.
RECURSIVE DirSets(_)
DirSets(n) ==
    IF n = 0 THEN {{Root}}
    ELSE LET S == DirSets(n - 1)
         IN  S \cup UNION {{T \cup {Append(d, c)} : d \in T, c \in DirNames} : T \in S}

FileSlots(D) == {s \in D \X FileNames : Append(s[1], s[2]) \notin D}

\* The file sets over directory set D with at most n files.
RECURSIVE FileSets(_, _)
FileSets(D, n) ==
    IF n = 0 THEN {{}}
    ELSE LET S == FileSets(D, n - 1)
         IN  S \cup UNION {{F \cup {s} : s \in FileSlots(D)} : F \in S}

\* os.listdir(path): the names of the immediate entries of a directory.
Listdir(D, F, p) ==
    {c \in DirNames : Append(p, c) \in D} \cup {f \in FileNames : <<p, f>> \in F}

\* os.path.isdir(path)
Isdir(D, p) == p \in D

\* Faulty variants of Dirname: one climbs two levels, one leaves the root.
DirnameSkip(p) == IF Len(p) <= 1 THEN Root ELSE SubSeq(p, 1, Len(p) - 2)
DirnameOffRoot(p) == IF p = Root THEN <<"..">> ELSE SubSeq(p, 1, Len(p) - 1)
\* os.path.dirname(path) on an absolute normalised path: "/" is its own parent.
Dirname(p) == IF p = Root THEN Root ELSE SubSeq(p, 1, Len(p) - 1)

\* os.path.join(path, name)
Join(p, n) == Append(p, n)

(***************************************************************************)
(* find_path (lines 32-55), one action per step of a frame.                *)
(***************************************************************************)
\* A printed line: which message, and the path it mentions.
Line(msg, p) == [msg |-> msg, path |-> p]

\* lines 37-39: default the start to os.getcwd()
FpEnter ==
    /\ fp_pc = "enter"
    /\ fp_path' = IF fp_arg.some THEN fp_arg.path ELSE cwd
    /\ fp_pc' = "check"
    /\ UNCHANGED <<fp_name, fp_arg, fp_ret, listed, ascents, dirnames>>
    /\ UNCHANGED <<fsVars, sys_path, stdout, runVars, mainVars, gvVars>>

\* Faulty variant of FpCheck: prints at every listing.
FpCheckNoisy ==
    /\ fp_pc = "check"
    /\ listed' = Append(listed, fp_path)
    /\ stdout' = Append(stdout, Line("found", Join(fp_path, fp_name)))
    /\ IF ~Isdir(dirs, fp_path)
       THEN fp_pc' = "raised" /\ UNCHANGED fp_ret
       ELSE IF fp_name \in Listdir(dirs, files, fp_path)
            THEN fp_ret' = SomePath(Join(fp_path, fp_name)) /\ fp_pc' = "done"
            ELSE fp_pc' = "parent" /\ UNCHANGED fp_ret
    /\ UNCHANGED <<fp_name, fp_arg, fp_path, ascents, dirnames>>
    /\ UNCHANGED <<fsVars, sys_path, runVars, mainVars, gvVars>>

\* Faulty variant of FpCheck: takes the parent before looking.
FpCheckEager ==
    /\ fp_pc = "check"
    /\ listed' = Append(listed, fp_path)
    /\ dirnames' = dirnames + 1
    /\ IF ~Isdir(dirs, fp_path)
       THEN fp_pc' = "raised" /\ UNCHANGED <<fp_ret, stdout>>
       ELSE IF fp_name \in Listdir(dirs, files, fp_path)
            THEN /\ fp_ret' = SomePath(Join(fp_path, fp_name))
                 /\ stdout' = Append(stdout, Line("found", Join(fp_path, fp_name)))
                 /\ fp_pc' = "done"
            ELSE fp_pc' = "parent" /\ UNCHANGED <<fp_ret, stdout>>
    /\ UNCHANGED <<fp_name, fp_arg, fp_path, ascents>>
    /\ UNCHANGED <<fsVars, sys_path, runVars, mainVars, gvVars>>

\* lines 41-45: list the directory; on a match print and return the joined
\* path.  os.listdir raises for a path that is no directory.
FpCheck ==
    /\ fp_pc = "check"
    /\ listed' = Append(listed, fp_path)
    /\ IF ~Isdir(dirs, fp_path)
       THEN fp_pc' = "raised" /\ UNCHANGED <<fp_ret, stdout>>
       ELSE IF fp_name \in Listdir(dirs, files, fp_path)
            THEN /\ fp_ret' = SomePath(Join(fp_path, fp_name))
                 /\ stdout' = Append(stdout, Line("found", Join(fp_path, fp_name)))
                 /\ fp_pc' = "done"
            ELSE fp_pc' = "parent" /\ UNCHANGED <<fp_ret, stdout>>
    /\ UNCHANGED <<fp_name, fp_arg, fp_path, ascents, dirnames>>
    /\ UNCHANGED <<fsVars, sys_path, runVars, mainVars, gvVars>>

\* Faulty variant of FpParent: no stop at the root, so the recursion goes on
\* until Python gives it up.
FpParentNoStop ==
    /\ fp_pc = "parent"
    /\ dirnames' = dirnames + 1
    /\ IF ascents > MaxDirs
       THEN fp_pc' = "raised" /\ UNCHANGED <<fp_path, ascents>>
       ELSE /\ fp_path' = Dirname(fp_path)
            /\ ascents' = ascents + 1
            /\ fp_pc' = "check"
    /\ UNCHANGED <<fp_name, fp_arg, fp_ret, listed>>
    /\ UNCHANGED <<fsVars, sys_path, stdout, runVars, mainVars, gvVars>>

\* lines 47-55: take the parent; stop with None at the root, else recurse
\* on the parent (whose result is returned as it is).
FpParent ==
    /\ fp_pc = "parent"
    /\ dirnames' = dirnames + 1
    /\ LET parent_directory == Dirname(fp_path)
       IN  IF parent_directory = fp_path
           THEN /\ fp_ret' = NoPath
                /\ fp_pc' = "done"
                /\ UNCHANGED <<fp_path, ascents>>
           ELSE /\ fp_path' = parent_directory
                /\ ascents' = ascents + 1
                /\ fp_pc' = "check"
                /\ UNCHANGED fp_ret
    /\ UNCHANGED <<fp_name, fp_arg, listed>>
    /\ UNCHANGED <<fsVars, sys_path, stdout, runVars, mainVars, gvVars>>

FindPath == FpEnter \/ FpCheck \/ FpParent

\* The frame as a call of find_path(name, arg) leaves it.
FpCalled(name, arg) ==
    /\ fp_name' = name
    /\ fp_arg' = arg
    /\ fp_path' = Root
    /\ fp_pc' = "enter"
    /\ fp_ret' = NoPath
    /\ listed' = << >>
    /\ ascents' = 0
    /\ dirnames' = 0

(***************************************************************************)
(* get_value_at_index (lines 8-29).  A Python value is a record: a tuple   *)
(* or list ("seq"), a dict ("map", its int keys and its str keys kept      *)
(* apart, as an int never equals a str), or an opaque handle ("val").      *)
(***************************************************************************)
NoItems == << >>
Val(id) == [kind |-> "val", id |-> id, items |-> NoItems, ints |-> << >>, strs |-> << >>]
SeqObj(items) == [kind |-> "seq", id |-> "", items |-> items, ints |-> << >>, strs |-> << >>]
MapObj(ints, strs) == [kind |-> "map", id |-> "", items |-> NoItems, ints |-> ints, strs |-> strs]

\* The outcome of evaluating an expression: a value, or the exception raised.
Ok(v) == [tag |-> "ok", val |-> v]
Raised(e) == [tag |-> e, val |-> Val("")]
Pending == [tag |-> "pending", val |-> Val("")]

\* obj[i] for an int i: a sequence counts negative positions from the end
\* and raises IndexError out of range; a dict raises KeyError for a missing
\* key; anything else is not subscriptable.
GetItemInt(o, i) ==
    CASE o.kind = "seq" ->
            IF 0 - Len(o.items) <= i /\ i < Len(o.items)
            THEN Ok(o.items[(IF i < 0 THEN Len(o.items) + i ELSE i) + 1])
            ELSE Raised("IndexError")
      [] o.kind = "map" ->
            IF i \in DOMAIN o.ints THEN Ok(o.ints[i]) ELSE Raised("KeyError")
      [] OTHER -> Raised("TypeError")

\* obj[k] for a str k
GetItemStr(o, k) ==
    CASE o.kind = "map" ->
            IF k \in DOMAIN o.strs THEN Ok(o.strs[k]) ELSE Raised("KeyError")
      [] OTHER -> Raised("TypeError")

\* Faulty variant of FallbackKey: the spelling of the docstring (line 14).
FallbackKeyPlural == "results"
\* line 29: the key of the fallback lookup
FallbackKey == "result"

\* Faulty variant of GetValueAtIndex: any failure yields a default.
GetValueAtIndexCatchAll(obj, index) ==
    LET direct == GetItemInt(obj, index)
    IN  IF direct.tag = "ok" THEN direct ELSE Ok(Val("default"))

\* lines 26-29: try obj[index]; only on KeyError, obj["result"][index]
GetValueAtIndex(obj, index) ==
    LET direct == GetItemInt(obj, index)
    IN  IF direct.tag # "KeyError"
        THEN direct
        ELSE LET r == GetItemStr(obj, FallbackKey)
             IN  IF r.tag # "ok" THEN r ELSE GetItemInt(r.val, index)

\* One call of get_value_at_index on the arguments at hand, outside a run
\* of the script.
GvCall ==
    /\ pc = "idle"
    /\ gv_out = Pending
    /\ gv_out' = GetValueAtIndex(gv_obj, gv_index)
    /\ UNCHANGED <<gv_obj, gv_index>>
    /\ UNCHANGED <<fsVars, sys_path, stdout, fpVars, runVars, mainVars>>

(***************************************************************************)
(* The values each part holds while it is not running.                     *)
(***************************************************************************)
FpIdle ==
    /\ fp_name = "" /\ fp_arg = NoPath /\ fp_path = Root /\ fp_pc = "idle"
    /\ fp_ret = NoPath /\ listed = << >> /\ ascents = 0 /\ dirnames = 0

RunIdle == pc = "idle" /\ exc = "none" /\ importable = {} /\ config = << >>

MainIdle == ip = 0 /\ iter = 0 /\ vals = << >> /\ calls = << >>

GvIdle == gv_obj = Val("") /\ gv_index = 0 /\ gv_out = Pending

FsAny ==
    /\ dirs \in DirSets(MaxDirs)
    /\ files \in FileSets(dirs, MaxFiles)
    /\ cwd \in dirs

(***************************************************************************)
(* find_path on its own: every tree, start and target name.                *)
(***************************************************************************)
InitFind ==
    /\ FsAny
    /\ sys_path = << >> /\ stdout = << >>
    /\ fp_name \in TargetNames
    /\ fp_arg \in {NoPath} \cup {SomePath(d) : d \in dirs}
    /\ fp_path = Root /\ fp_pc = "enter" /\ fp_ret = NoPath
    /\ listed = << >> /\ ascents = 0 /\ dirnames = 0
    /\ RunIdle /\ MainIdle /\ GvIdle

NextFind == FindPath

SpecFind == InitFind /\ [][NextFind]_vars

FairSpecFind == SpecFind /\ WF_vars(NextFind)

(***************************************************************************)
(* get_value_at_index on its own: every object and index of the bounds.    *)
(***************************************************************************)
Elems == {Val("e0"), Val("e1")}

SeqsUpTo(n) == UNION {[1..k -> Elems] : k \in 0..n}

IndexRange == (0 - MaxLen - 1)..MaxLen

IntKeys == {0, 1}

\* What a dict may hold under a str key: a sequence, a dict, a handle.
Stored == {SeqObj(s) : s \in SeqsUpTo(MaxLen)}
            \cup {MapObj([i \in {0} |-> Val("inner")], << >>), Val("scalar")}

StrMaps ==
    {<< >>, [k \in {"results"} |-> SeqObj(<<Val("plural")>>)]}
      \cup {[k \in {"result"} |-> v] : v \in Stored}
      \cup {[k \in {"result", "results"} |->
                IF k = "result" THEN v ELSE SeqObj(<<Val("plural")>>)] : v \in Stored}

IntMaps == {[i \in K |-> Val("keyed")] : K \in SUBSET IntKeys}

Objs == {SeqObj(s) : s \in SeqsUpTo(MaxLen)}
          \cup {MapObj(m, s) : m \in IntMaps, s \in StrMaps}

InitGet ==
    /\ dirs = {Root} /\ files = {} /\ cwd = Root
    /\ sys_path = << >> /\ stdout = << >>
    /\ FpIdle /\ RunIdle /\ MainIdle
    /\ gv_obj \in Objs
    /\ gv_index \in IndexRange
    /\ gv_out = Pending

NextGet == GvCall

SpecGet == InitGet /\ [][NextGet]_vars

(***************************************************************************)
(* The module-level code that runs before main: lines 88, 89 and 115.      *)
(***************************************************************************)
Crash(e) == pc' = "crashed" /\ exc' = e

\* line 62: find_path("ComfyUI")
AddComfyCall ==
    /\ pc = "add_comfyui"
    /\ FpCalled("ComfyUI", NoPath)
    /\ pc' = "add_comfyui_wait"
    /\ UNCHANGED <<exc, importable, config>>
    /\ UNCHANGED <<fsVars, sys_path, stdout, mainVars, gvVars>>

\* lines 63-65: append a found directory to sys.path and say so; a path that
\* was not found, or is no directory, is passed over in silence.
AddComfyReturn ==
    /\ pc = "add_comfyui_wait"
    /\ fp_pc \in {"done", "raised"}
    /\ fp_pc' = "idle"
    /\ IF fp_pc = "raised"
       THEN Crash("FileNotFoundError") /\ UNCHANGED <<sys_path, stdout>>
       ELSE /\ IF fp_ret.some /\ Isdir(dirs, fp_ret.path)
               THEN /\ sys_path' = Append(sys_path, fp_ret.path)
                    /\ stdout' = Append(stdout, Line("added", fp_ret.path))
               ELSE UNCHANGED <<sys_path, stdout>>
            /\ pc' = "import_loader"
            /\ UNCHANGED exc
    /\ UNCHANGED <<fp_name, fp_arg, fp_path, fp_ret, listed, ascents, dirnames>>
    /\ UNCHANGED <<importable, config, fsVars, mainVars, gvVars>>

\* lines 72-78: import load_extra_path_config from main, else (saying so)
\* from utils.extra_config; a failure of the second import is not caught.
AddExtraImport ==
    /\ pc = "import_loader"
    /\ IF "main" \in importable
       THEN pc' = "add_extra" /\ UNCHANGED <<exc, stdout>>
       ELSE /\ stdout' = Append(stdout, Line("import_fallback", Root))
            /\ IF "utils.extra_config" \in importable
               THEN pc' = "add_extra" /\ UNCHANGED exc
               ELSE Crash("ImportError")
    /\ UNCHANGED <<importable, config>>
    /\ UNCHANGED <<fsVars, sys_path, fpVars, mainVars, gvVars>>

\* line 80: find_path("extra_model_paths.yaml")
AddExtraCall ==
    /\ pc = "add_extra"
    /\ FpCalled("extra_model_paths.yaml", NoPath)
    /\ pc' = "add_extra_wait"
    /\ UNCHANGED <<exc, importable, config>>
    /\ UNCHANGED <<fsVars, sys_path, stdout, mainVars, gvVars>>

\* Faulty variant of AddExtraReturn: a missing config file is an error.
AddExtraReturnRaise ==
    /\ pc = "add_extra_wait"
    /\ fp_pc \in {"done", "raised"}
    /\ fp_pc' = "idle"
    /\ IF fp_pc = "raised"
       THEN Crash("FileNotFoundError") /\ UNCHANGED <<config, stdout>>
       ELSE IF fp_ret.some
            THEN /\ config' = Append(config, fp_ret.path)
                 /\ pc' = "import_nodes"
                 /\ UNCHANGED <<exc, stdout>>
            ELSE Crash("FileNotFoundError") /\ UNCHANGED <<config, stdout>>
    /\ UNCHANGED <<fp_name, fp_arg, fp_path, fp_ret, listed, ascents, dirnames>>
    /\ UNCHANGED <<importable, fsVars, sys_path, mainVars, gvVars>>

\* lines 82-85: load the config that was found, else say that none was.
AddExtraReturn ==
    /\ pc = "add_extra_wait"
    /\ fp_pc \in {"done", "raised"}
    /\ fp_pc' = "idle"
    /\ IF fp_pc = "raised"
       THEN Crash("FileNotFoundError") /\ UNCHANGED <<config, stdout>>
       ELSE /\ IF fp_ret.some
               THEN /\ config' = Append(config, fp_ret.path)
                    /\ UNCHANGED stdout
               ELSE /\ stdout' = Append(stdout, Line("no_config", Root))
                    /\ UNCHANGED config
            /\ pc' = "import_nodes"
            /\ UNCHANGED exc
    /\ UNCHANGED <<fp_name, fp_arg, fp_path, fp_ret, listed, ascents, dirnames>>
    /\ UNCHANGED <<importable, fsVars, sys_path, mainVars, gvVars>>

\* line 115: from nodes import NODE_CLASS_MAPPINGS
ImportNodes ==
    /\ pc = "import_nodes"
    /\ IF "nodes" \in importable
       THEN pc' = "main" /\ UNCHANGED exc
       ELSE Crash("ImportError")
    /\ UNCHANGED <<importable, config>>
    /\ UNCHANGED <<fsVars, sys_path, stdout, fpVars, mainVars, gvVars>>

StartupModules == {"main", "utils.extra_config", "nodes"}

InitStartup ==
    /\ FsAny
    /\ sys_path = << >> /\ stdout = << >>
    /\ FpIdle
    /\ pc = "add_comfyui" /\ exc = "none" /\ config = << >>
    /\ importable \in SUBSET StartupModules
    /\ MainIdle /\ GvIdle

NextStartup ==
    \/ AddComfyCall
    \/ AddComfyReturn
    \/ AddExtraImport
    \/ AddExtraCall
    \/ AddExtraReturn
    \/ ImportNodes
    \/ FindPath

SpecStartup == InitStartup /\ [][NextStartup]_vars

(***************************************************************************)
(* main (lines 118-192).  import_custom_nodes first, then the statements   *)
(* of Program one after the other.                                         *)
(***************************************************************************)
Call(op, args) == [op |-> op, args |-> args]

New(cls) == [kind |-> "new", cls |-> cls, op |-> "", var |-> "", srcs |-> << >>]
Invoke(op, var, srcs) == [kind |-> "call", cls |-> "", op |-> op, var |-> var, srcs |-> srcs]
For == [kind |-> "for", cls |-> "", op |-> "", var |-> "", srcs |-> << >>]

\* lines 121-192: each node class instantiated, each node method called with
\* the variables whose position 0 it is given, in the order of evaluation.
Program ==
    << New("DualCLIPLoader"),
       Invoke("load_clip", "dualcliploader_11", << >>),
       New("CLIPTextEncode"),
       Invoke("encode", "cliptextencode_6", <<"dualcliploader_11">>),
       New("VAELoader"),
       Invoke("load_vae", "vaeloader_10", << >>),
       New("UNETLoader"),
       Invoke("load_unet", "unetloader_12", << >>),
       New("KSamplerSelect"),
       Invoke("get_sampler", "ksamplerselect_16", << >>),
       New("RandomNoise"),
       Invoke("get_noise", "randomnoise_25", << >>),
       New("EmptySD3LatentImage"),
       Invoke("generate", "emptysd3latentimage_27", << >>),
       New("FluxGuidance"),
       New("BasicGuider"),
       New("BasicScheduler"),
       New("SamplerCustomAdvanced"),
       New("VAEDecode"),
       New("SaveImage"),
       For,
       Invoke("append", "fluxguidance_26", <<"cliptextencode_6">>),
       Invoke("get_guider", "basicguider_22", <<"unetloader_12", "fluxguidance_26">>),
       Invoke("get_sigmas", "basicscheduler_17", <<"unetloader_12">>),
       Invoke("sample", "samplercustomadvanced_13",
              <<"randomnoise_25", "basicguider_22", "ksamplerselect_16",
                "basicscheduler_17", "emptysd3latentimage_27">>),
       Invoke("decode", "vaedecode_8", <<"samplercustomadvanced_13", "vaeloader_10">>),
       Invoke("save_images", "saveimage_9", <<"vaedecode_8">>) >>

VarNames == {Program[i].var : i \in {j \in 1..Len(Program) : Program[j].kind = "call"}}

\* line 160: the statement the loop starts at, and range(1)
LoopHead == CHOOSE i \in 1..Len(Program) : Program[i].kind = "for"
RangeN == 1

\* Faulty variant of LoopMore: one iteration too many.
LoopMoreInclusive(n) == n <= RangeN
\* line 160: whether range(1) has a value left after n iterations
LoopMore(n) == n < RangeN

\* The statement after statement i: the end of the loop body leads back to
\* the loop head.
NextIp(i) == IF i = Len(Program) THEN LoopHead ELSE i + 1

\* What a node method may hand back for result handle h: a tuple, a dict
\* with the tuple under "result", or something position 0 cannot be taken
\* of (an empty tuple, a dict with no "result").
OutShapes(h) ==
    { SeqObj(<<Val(h)>>),
      MapObj(<< >>, [k \in {"result"} |-> SeqObj(<<Val(h)>>)]),
      SeqObj(<< >>),
      MapObj(<< >>, [k \in {"ui"} |-> SeqObj(<<Val(h)>>)]) }

\* The outcomes of get_value_at_index(v, 0) for the variables srcs, in order.
Extracted(srcs) == [i \in 1..Len(srcs) |-> GetValueAtIndex(vals[srcs[i]], 0)]

Failures(outs) == {i \in 1..Len(outs) : outs[i].tag # "ok"}

Min(S) == CHOOSE x \in S : \A y \in S : x <= y

\* lines 98-101: the imports of import_custom_nodes
IcnImports ==
    /\ pc = "main"
    /\ IF {"execution", "server", "nodes"} \subseteq importable
       THEN pc' = "icn_new_loop" /\ UNCHANGED exc
       ELSE Crash("ImportError")
    /\ UNCHANGED <<importable, config, mainVars>>
    /\ UNCHANGED <<fsVars, sys_path, stdout, fpVars, gvVars>>

\* line 104: loop = asyncio.new_event_loop()
IcnNewLoop ==
    /\ pc = "icn_new_loop"
    /\ calls' = Append(calls, Call("new_event_loop", << >>))
    /\ pc' = "icn_set_loop"
    /\ UNCHANGED <<exc, importable, config, ip, iter, vals>>
    /\ UNCHANGED <<fsVars, sys_path, stdout, fpVars, gvVars>>

\* line 105: asyncio.set_event_loop(loop)
IcnSetLoop ==
    /\ pc = "icn_set_loop"
    /\ calls' = Append(calls, Call("set_event_loop", <<"loop">>))
    /\ pc' = "icn_server"
    /\ UNCHANGED <<exc, importable, config, ip, iter, vals>>
    /\ UNCHANGED <<fsVars, sys_path, stdout, fpVars, gvVars>>

\* line 108: server_instance = server.PromptServer(loop); what the
\* constructor raises is not caught
IcnServer ==
    /\ pc = "icn_server"
    /\ calls' = Append(calls, Call("PromptServer", <<"loop">>))
    /\ \E raises \in BOOLEAN :
          IF raises THEN Crash("FrameworkError")
          ELSE pc' = "icn_queue" /\ UNCHANGED exc
    /\ UNCHANGED <<importable, config, ip, iter, vals>>
    /\ UNCHANGED <<fsVars, sys_path, stdout, fpVars, gvVars>>

\* line 109: execution.PromptQueue(server_instance)
IcnQueue ==
    /\ pc = "icn_queue"
    /\ calls' = Append(calls, Call("PromptQueue", <<"server_instance">>))
    /\ \E raises \in BOOLEAN :
          IF raises THEN Crash("FrameworkError")
          ELSE pc' = "icn_init" /\ UNCHANGED exc
    /\ UNCHANGED <<importable, config, ip, iter, vals>>
    /\ UNCHANGED <<fsVars, sys_path, stdout, fpVars, gvVars>>

\* Faulty variant of IcnInit: import_custom_nodes runs a second time.
IcnInitTwice ==
    /\ pc = "icn_init"
    /\ calls' = Append(calls, Call("init_extra_nodes", << >>))
    /\ IF Len(calls) < 6
       THEN pc' = "icn_new_loop" /\ UNCHANGED ip
       ELSE pc' = "nodes" /\ ip' = 1
    /\ UNCHANGED <<exc, importable, config, iter, vals>>
    /\ UNCHANGED <<fsVars, sys_path, stdout, fpVars, gvVars>>

\* line 112: init_extra_nodes(), after which main goes on to line 120
IcnInit ==
    /\ pc = "icn_init"
    /\ calls' = Append(calls, Call("init_extra_nodes", << >>))
    /\ \E raises \in BOOLEAN :
          IF raises THEN Crash("FrameworkError") /\ UNCHANGED ip
          ELSE pc' = "nodes" /\ ip' = 1 /\ UNCHANGED exc
    /\ UNCHANGED <<importable, config, iter, vals>>
    /\ UNCHANGED <<fsVars, sys_path, stdout, fpVars, gvVars>>

\* NODE_CLASS_MAPPINGS["..."](): a KeyError for a class the framework has not
\* registered, and whatever the constructor raises, are not caught.
MainNew ==
    /\ pc = "nodes"
    /\ Program[ip].kind = "new"
    /\ \E raises \in BOOLEAN :
          IF raises
          THEN Crash("KeyError") /\ UNCHANGED ip
          ELSE ip' = NextIp(ip) /\ UNCHANGED <<pc, exc>>
    /\ UNCHANGED <<importable, config, iter, vals, calls>>
    /\ UNCHANGED <<fsVars, sys_path, stdout, fpVars, gvVars>>

\* A node method call: its arguments are extracted first, in order, and the
\* first extraction that raises ends the run before the method is invoked;
\* the method itself raises, or returns what is kept in its variable.
MainCall ==
    /\ pc = "nodes"
    /\ Program[ip].kind = "call"
    /\ LET st == Program[ip]
           outs == Extracted(st.srcs)
       IN  IF Failures(outs) # {}
           THEN /\ Crash(outs[Min(Failures(outs))].tag)
                /\ UNCHANGED <<ip, vals, calls>>
           ELSE /\ calls' = Append(calls,
                        Call(st.op, [i \in 1..Len(outs) |-> outs[i].val.id]))
                /\ \E raises \in BOOLEAN :
                      IF raises
                      THEN Crash("FrameworkError") /\ UNCHANGED <<ip, vals>>
                      ELSE /\ \E o \in OutShapes(st.var) :
                                 vals' = [vals EXCEPT ![st.var] = o]
                           /\ ip' = NextIp(ip)
                           /\ UNCHANGED <<pc, exc>>
    /\ UNCHANGED <<importable, config, iter>>
    /\ UNCHANGED <<fsVars, sys_path, stdout, fpVars, gvVars>>

\* line 160: for q in range(1): one more iteration, or the end of main
MainFor ==
    /\ pc = "nodes"
    /\ Program[ip].kind = "for"
    /\ IF LoopMore(iter)
       THEN iter' = iter + 1 /\ ip' = ip + 1 /\ UNCHANGED pc
       ELSE pc' = "done" /\ UNCHANGED <<ip, iter>>
    /\ UNCHANGED <<exc, importable, config, vals, calls>>
    /\ UNCHANGED <<fsVars, sys_path, stdout, fpVars, gvVars>>

Unset == Val("unset")

MainModules == {"execution", "server"}

\* main is entered once the module-level code has run through: here in a
\* directory tree that holds neither target, with "nodes" importable.
InitMain ==
    /\ dirs = {Root} /\ files = {} /\ cwd = Root
    /\ sys_path = << >>
    /\ stdout = <<Line("no_config", Root)>>
    /\ FpIdle
    /\ pc = "main" /\ exc = "none" /\ config = << >>
    /\ importable \in {{"main", "nodes"} \cup M : M \in SUBSET MainModules}
    /\ ip = 0 /\ iter = 0 /\ calls = << >>
    /\ vals = [v \in VarNames |-> Unset]
    /\ GvIdle

NextMain ==
    \/ IcnImports
    \/ IcnNewLoop
    \/ IcnSetLoop
    \/ IcnServer
    \/ IcnQueue
    \/ IcnInit
    \/ MainNew
    \/ MainCall
    \/ MainFor

SpecMain == InitMain /\ [][NextMain]_vars

(***************************************************************************)
(* get_value_at_index both ways: called on its own on every object of the  *)
(* bounds, and called by main on the results of the nodes.                 *)
(***************************************************************************)
InitExtract == InitGet \/ InitMain

NextExtract == GvCall \/ NextMain

SpecExtract == InitExtract /\ [][NextExtract]_vars

(***************************************************************************)
(* Properties of find_path, under SpecFind.                                *)
(***************************************************************************)
\* The directory the search starts at.
Start == IF fp_arg.some THEN fp_arg.path ELSE cwd

\* Directory d has an immediate entry called n.
Has(d, n) == Append(d, n) \in dirs \/ <<d, n>> \in files

\* The depths of Start and of its ancestors whose child list holds the name.
Holders == {k \in 0..Len(Start) : Has(SubSeq(Start, 1, k), fp_name)}

Deepest(S) == CHOOSE k \in S : \A j \in S : j <= k

\* C1: when the name is in the child list of the start or of an ancestor,
\* find_path returns the name joined to the nearest such directory, never a
\* farther one, and raises nothing.
C1_NearestMatch ==
    Holders # {} =>
        /\ fp_pc # "raised"
        /\ fp_pc = "done" =>
              fp_ret = SomePath(Append(SubSeq(Start, 1, Deepest(Holders)), fp_name))

\* A finished search that passed the start and had two ancestors to choose from.
C1_Witness ==
    /\ fp_pc = "done"
    /\ Cardinality(Holders) >= 2
    /\ Deepest(Holders) < Len(Start)

\* C2: when neither the start nor any ancestor up to the root holds the
\* name, find_path returns None and raises nothing.
C2_NotFound ==
    Holders = {} =>
        /\ fp_pc # "raised"
        /\ fp_pc = "done" => fp_ret = NoPath

\* A search that climbed from below the root to the root and found nothing.
C2_Witness ==
    /\ fp_pc = "done"
    /\ Holders = {}
    /\ Len(Start) >= 1
    /\ fp_ret = NoPath

\* C3: find_path reaches a terminal state, and it makes at most as many
\* ascents as the start directory is deep.
C3_Terminates == <>(fp_pc = "done") /\ [](ascents <= Len(Start))

\* A search that ended after exactly depth-many ascents, from depth two or more.
C3_Witness ==
    /\ fp_pc = "done"
    /\ Len(Start) >= 2
    /\ ascents = Len(Start)

\* C8 as stated: a call changes nothing at all of the tree, sys.path, the
\* working directory, the output and the rest of the program state.
C8_NoEffectAtAll ==
    [][UNCHANGED <<dirs, files, cwd, sys_path, stdout, runVars, mainVars, gvVars>>]_vars

\* C8 amended: a call leaves the tree, the working directory, sys.path and
\* the rest of the program state unchanged; besides listing directories it
\* prints one line, naming the returned path, exactly when it finds the
\* name, and nothing when it does not.
C8_OnlyPrintsWhenFound ==
    [][ /\ UNCHANGED <<dirs, files, cwd, sys_path, runVars, mainVars, gvVars>>
        /\ \/ stdout' = stdout
           \/ /\ fp_pc' = "done"
              /\ fp_ret'.some
              /\ stdout' = Append(stdout, Line("found", fp_ret'.path))
        /\ fp_pc' = "done" => Len(stdout') = IF fp_ret'.some THEN 1 ELSE 0
      ]_vars

\* A search that found the name above the start and printed its one line.
C8_Witness ==
    /\ fp_pc = "done"
    /\ fp_ret.some
    /\ ascents >= 1
    /\ stdout = <<Line("found", fp_ret.path)>>

\* C9: when the start directory itself holds the name, the result is the
\* name joined to the start, only the start is listed, and no parent is
\* computed or ascended to, whatever the ancestors hold.
C9_ZeroAscents ==
    Has(Start, fp_name) =>
        /\ ascents = 0
        /\ dirnames = 0
        /\ fp_pc \in {"enter", "check", "done"}
        /\ fp_pc = "done" =>
              /\ fp_ret = SomePath(Append(Start, fp_name))
              /\ listed = <<Start>>

\* A finished search whose start and whose parent both hold the name.
C9_Witness ==
    /\ fp_pc = "done"
    /\ Has(Start, fp_name)
    /\ Len(Start) >= 1
    /\ Has(SubSeq(Start, 1, Len(Start) - 1), fp_name)

(***************************************************************************)
(* Properties of get_value_at_index, under SpecGet.                        *)
(***************************************************************************)
\* Position i (Python's, negative ones counted from the end) exists in items.
ValidPos(items, i) == 0 - Len(items) <= i /\ i < Len(items)

\* The element of items at Python position i.
At(items, i) == items[IF i < 0 THEN Len(items) + i + 1 ELSE i + 1]

NotFoundComfy == pc = "add_comfyui_wait" /\ fp_pc = "done" /\ ~fp_ret.some

NotFoundExtra == pc = "add_extra_wait" /\ fp_pc = "done" /\ ~fp_ret.some

\* C6 as stated: in each of the two steps a path that was not found makes
\* the step print a message, raise nothing and go on to the next step.
C6_BothLogged ==
    [][ /\ NotFoundComfy =>
              /\ Len(stdout') = Len(stdout) + 1
              /\ exc' = "none" /\ pc' = "import_loader"
        /\ NotFoundExtra =>
              /\ Len(stdout') = Len(stdout) + 1
              /\ exc' = "none" /\ pc' = "import_nodes"
      ]_vars

\* C6 amended: in each of the two steps a path that was not found raises
\* nothing and the run goes on to the next step; only the config-file step
\* prints a message, the installation-directory step prints nothing (and
\* leaves sys.path as it is).
C6_OnlyConfigLogged ==
    [][ /\ NotFoundComfy =>
              /\ stdout' = stdout
              /\ sys_path' = sys_path
              /\ exc' = "none" /\ pc' = "import_loader"
        /\ NotFoundExtra =>
              /\ stdout' = Append(stdout, Line("no_config", Root))
              /\ config' = config
              /\ exc' = "none" /\ pc' = "import_nodes"
      ]_vars

\* A run in which neither path was found, below the root, and which went on
\* to the import of nodes having printed only the config-file message.
C6_Witness ==
    /\ pc = "import_nodes"
    /\ exc = "none"
    /\ Len(cwd) >= 1
    /\ sys_path = << >>
    /\ config = << >>
    /\ "main" \in importable
    /\ stdout = <<Line("no_config", Root)>>

(***************************************************************************)
(* Properties of main, under SpecMain.                                     *)
(***************************************************************************)
IcnOps == {"new_event_loop", "set_event_loop", "PromptServer", "PromptQueue",
           "init_extra_nodes"}

IsNodeCall(c) == c.op \notin IcnOps

NodeCalls == SelectSeq(calls, IsNodeCall)

\* Position 0 can be taken of o: directly, or under "result".
Extractable(o) ==
    \/ o.kind = "seq" /\ Len(o.items) >= 1
    \/ o.kind = "map" /\ 0 \in DOMAIN o.ints
    \/ /\ o.kind = "map"
       /\ "result" \in DOMAIN o.strs
       /\ o.strs["result"].kind = "seq"
       /\ Len(o.strs["result"].items) >= 1

\* The element at position 0 of an extractable o.
First(o) ==
    IF o.kind = "seq" THEN o.items[1]
    ELSE IF 0 \in DOMAIN o.ints THEN o.ints[0]
    ELSE o.strs["result"].items[1]

\* The statement at ip is a node call one of whose arguments cannot be
\* extracted.
BadSource ==
    /\ ip \in 1..Len(Program)
    /\ Program[ip].kind = "call"
    /\ \E k \in 1..Len(Program[ip].srcs) : ~Extractable(vals[Program[ip].srcs[k]])

\* The error, if any, that taking position i of o directly, or else under
\* "result", must end in ("none": a value is there to be returned).
ExtractionError(o, i) ==
    IF o.kind = "seq"
    THEN IF ValidPos(o.items, i) THEN "none" ELSE "IndexError"
    ELSE IF i \in DOMAIN o.ints THEN "none"
    ELSE IF "result" \notin DOMAIN o.strs THEN "KeyError"
    ELSE LET r == o.strs["result"]
         IN  IF r.kind = "seq"
             THEN IF ValidPos(r.items, i) THEN "none" ELSE "IndexError"
             ELSE IF r.kind = "map"
             THEN IF i \in DOMAIN r.ints THEN "none" ELSE "KeyError"
             ELSE "TypeError"

NodeOps == <<"load_clip", "encode", "load_vae", "load_unet", "get_sampler",
             "get_noise", "generate", "append", "get_guider", "get_sigmas",
             "sample", "decode", "save_images">>

\* The variable that holds the result of each node operation.
ResultOf ==
    [op \in {NodeOps[i] : i \in 1..Len(NodeOps)} |->
        Program[CHOOSE i \in 1..Len(Program) : Program[i].op = op].var]

\* C7: the node operations are invoked in the one fixed order, each once;
\* every input is the position-0 element of the result of an operation
\* invoked earlier; a run without failure makes all thirteen, in one
\* iteration of the loop, save_images last.
C7_FixedChain ==
    LET nc == NodeCalls
    IN  /\ Len(nc) <= Len(NodeOps)
        /\ \A i \in 1..Len(nc) :
              /\ nc[i].op = NodeOps[i]
              /\ \A k \in 1..Len(nc[i].args) :
                    \E j \in 1..(i - 1) :
                        /\ Extractable(vals[ResultOf[NodeOps[j]]])
                        /\ nc[i].args[k] = First(vals[ResultOf[NodeOps[j]]]).id
        /\ iter <= 1
        /\ pc = "done" =>
              /\ Len(nc) = Len(NodeOps)
              /\ iter = 1
              /\ calls[Len(calls)].op = "save_images"

\* A run that completed, with results of both shapes along the chain.
C7_Witness ==
    /\ pc = "done"
    /\ exc = "none"
    /\ vals["dualcliploader_11"].kind = "seq"
    /\ vals["unetloader_12"].kind = "map"
    /\ vals["vaedecode_8"].kind = "map"

IcnCalls == << Call("new_event_loop", << >>),
               Call("set_event_loop", <<"loop">>),
               Call("PromptServer", <<"loop">>),
               Call("PromptQueue", <<"server_instance">>),
               Call("init_extra_nodes", << >>) >>

\* C10: the loop is created, then installed, then the server built on it,
\* then the queue built from the server, then the custom nodes initialised,
\* all before the first node operation; nothing of it happens twice.
C10_OneLoopOneQueue ==
    /\ \A i \in 1..Len(calls) :
          IF i <= Len(IcnCalls) THEN calls[i] = IcnCalls[i] ELSE IsNodeCall(calls[i])
    /\ pc \in {"nodes", "done"} => Len(calls) >= Len(IcnCalls)
    /\ NodeCalls # << >> => Len(calls) > Len(IcnCalls)

\* A completed run: one loop and one queue were created, and node
\* operations followed.
C10_Witness ==
    /\ pc = "done"
    /\ Cardinality({i \in 1..Len(calls) : calls[i].op = "new_event_loop"}) = 1
    /\ Cardinality({i \in 1..Len(calls) : calls[i].op = "PromptQueue"}) = 1
    /\ Len(NodeCalls) = Len(NodeOps)

====
